---- MODULE Spec2Model ----
(***************************************************************************)
(* ESP32 room monitor firmware (src/src/main.cpp) as a state machine.      *)
(*                                                                         *)
(* One wake cycle is setup() followed, on an interactive wake, by loop()   *)
(* iterations until enterDeepSleep().  Deep sleep is a restart: ordinary   *)
(* globals are re-initialised, RTC_DATA_ATTR globals survive, the flash    *)
(* file and the "settings" key-value store survive power loss as well.     *)
(*                                                                         *)
(* 32-bit words are kept as their signed representative; unsigned          *)
(* comparisons go through ULt/UGe, which compare the values mod 2^32.      *)
(* Projected away: the serial log, display contents, the live overview     *)
(* refresh (liveData, lastLiveUpdate, lastClockRedraw, animX), and the    *)
(* write-only cells bootCount, lastButtonPress and lastDisplayedPos.       *)
(***************************************************************************)
EXTENDS Integers, Sequences, FiniteSets, TLC

\* ---------------------------------------------------------------- constants
SLEEP_TIMEOUT == 30000
NTP_STALENESS_INTERVAL == 86400
RAM_BUFFER_SIZE == 48
PERIODIC_WAKEUP_MINUTES == 30
ENCODER_DEBOUNCE_MS == 5
ENCODER_DETENTS_PER_CLICK == 2
SANE_EPOCH == 1767225600
\* rtc.setTime(0, 0, 12, 16, 1, 2026): 2026-01-16 12:00:00 UTC
DEFAULT_EPOCH == 1768564800
MAX_TIME_OFFSET == 100
SHORT_PRESS_MIN == 50
LONG_PRESS_MIN == 500

MODE_OVERVIEW == 0
MODE_HISTORY == 1
MODE_GRAPH_TEMP == 2
MODE_GRAPH_HUMID == 3
MODE_SETTINGS == 4
RANGE_DAILY == 0
RANGE_WEEKLY == 1
RANGE_MONTHLY == 2
RANGE_YEARLY == 3

\* ------------------------------------------------------------------- bounds
\* wake cycles explored in one behaviour
MaxWakes == 2
\* |encoderTicks| explored in one wake cycle
MaxTicks == 3
\* milliseconds of fine-grained activity explored in one wake cycle
MaxBusySteps == 6
\* milliseconds of one fine-grained time step: half a long press
StepMs == LONG_PRESS_MIN \div 2
MaxBusyMillis == MaxBusySteps * StepMs
\* records beyond the mirror capacity in the flash file of the first state
MaxExtra == 1

\* true UTC at the first state: 2026-02-02 02:40:00 UTC, a month after the
\* sanity threshold
T0 == SANE_EPOCH + 2774400
\* seconds between two records of the periodic sampling
SamplePeriod == PERIODIC_WAKEUP_MINUTES * 60

VARIABLES
    pc,                 \* position of the main thread
    wakes,              \* wake cycles started so far
    file,               \* /history.dat: the records, in file order
    prefsSummerTime,    \* settings store, key summerTime
    prefsLastNtpSync,   \* settings store, key lastNtpSync
    prefsWrites,        \* number of saveSettings()/putULong commits so far
    compileTime,        \* COMPILE_TIME of the build (0: not defined)
    backgroundReading,
    flashEntryCount,
    oldestTimestamp,
    newestTimestamp,
    lastNtpSync,
    epoch,              \* rtc.getEpoch()
    trueTime,           \* UTC as an NTP server reports it
    millis,             \* millis()
    ramBuffer,
    ramBufferCount,
    displayAvailable,
    sensorAvailable,
    isSummerTime,
    currentMode,
    currentRange,
    timeOffset,
    historyIndex,
    encoderTicks,
    lastEncoderState,
    clkEdges,           \* CLK falling edges met outside the debounce window
    buttonPressed,
    longPress,
    buttonPressStart,
    lastEncoderTime,
    lastActivityTime,
    encoderPos,
    lastProcessedTicks,
    mounted,            \* LittleFS is mounted in this wake cycle
    swLevel,            \* level of ENCODER_SW_PIN
    isrAttached,        \* attachInterrupt() has run in this wake cycle
    radioOn,            \* WiFi radio left powered
    syncAttempted,      \* syncTimeWithNTP() was called in this wake cycle
    ntpSuccess,         \* what that call returned (setup's local ntpSuccess)
    everSynced,         \* an NTP sync has succeeded since the last power-on
    wakeCause,          \* esp_sleep_get_wakeup_cause() of this wake cycle
    timerArmed,         \* esp_sleep_enable_timer_wakeup() armed for this sleep
    gpioArmed,          \* esp_deep_sleep_enable_gpio_wakeup() armed
    faults,             \* filesystem failures met in this wake cycle
    last,               \* what the most recent step did (observation record)
    drew,               \* that step issued an operation on the display
    millisFirst,        \* the timeout test calls millis() before it loads
                        \* lastActivityTime (the order is the compiler's)
    timeoutOperand,     \* the operand of the timeout test evaluated first
    pressSeen           \* buttonISR() has run on a falling edge in this wake cycle

vars == <<pc, wakes, file, prefsSummerTime, prefsLastNtpSync, prefsWrites,
          compileTime, backgroundReading, flashEntryCount, oldestTimestamp,
          newestTimestamp, lastNtpSync, epoch, trueTime, millis, ramBuffer,
          ramBufferCount, displayAvailable, sensorAvailable, isSummerTime,
          currentMode, currentRange, timeOffset, historyIndex, encoderTicks,
          lastEncoderState, clkEdges, buttonPressed, longPress, buttonPressStart,
          lastEncoderTime, lastActivityTime, encoderPos, lastProcessedTicks,
          mounted, swLevel, isrAttached, radioOn, syncAttempted, ntpSuccess,
          everSynced, wakeCause, timerArmed, gpioArmed, faults, last, drew,
          millisFirst, timeoutOperand, pressSeen>>

rtcVars == <<backgroundReading, flashEntryCount, oldestTimestamp,
             newestTimestamp, lastNtpSync>>
storeVars == <<file, flashEntryCount, oldestTimestamp, newestTimestamp,
               ramBuffer, ramBufferCount, mounted, faults>>
prefsVars == <<prefsSummerTime, prefsLastNtpSync, prefsWrites>>
uiVars == <<currentMode, currentRange, timeOffset, historyIndex>>
encVars == <<encoderTicks, lastEncoderState, clkEdges, lastEncoderTime, encoderPos,
             lastProcessedTicks>>
btnVars == <<buttonPressed, longPress, buttonPressStart, swLevel>>
clockVars == <<epoch, trueTime, millis>>
sleepVars == <<timerArmed, gpioArmed>>
syncVars == <<syncAttempted, ntpSuccess, everSynced>>
testVars == <<millisFirst, timeoutOperand>>
hwVars == <<displayAvailable, sensorAvailable, isrAttached, radioOn,
            syncVars, wakeCause, compileTime>>

\* ------------------------------------------------------------------ helpers
Min(a, b) == IF a < b THEN a ELSE b
Max(a, b) == IF a > b THEN a ELSE b
Abs(a) == IF a < 0 THEN 0 - a ELSE a

\* a < b and a >= b on 32-bit words read as unsigned
ULt(a, b) == IF (a < 0) = (b < 0) THEN a < b ELSE b < 0
UGe(a, b) == ~ULt(a, b)

\* a faulty variant of TruncDiv: division rounding down
TruncDiv_Floor(a, b) == a \div b

\* C integer division, truncating towards zero
TruncDiv(a, b) == IF a >= 0 THEN a \div b ELSE 0 - ((0 - a) \div b)

SensorData(t, v) == [timestamp |-> t, value |-> v]
ZeroData == SensorData(0, 0)
EmptyRamBuffer == [i \in 0..(RAM_BUFFER_SIZE - 1) |-> ZeroData]

\* the flash file a device holds after n periodic samples ending before T0
InitFile(n) ==
    [i \in 1..n |-> SensorData(T0 - (n - i + 1) * SamplePeriod, 20 + (i % 2))]

\* --------------------------------------------------------- settings store
\* a faulty variant of saveSettings: the lastNtpSync key is not written
saveSettings_SummerOnly(summer, sync) ==
    /\ prefsSummerTime' = summer
    /\ prefsLastNtpSync' = prefsLastNtpSync
    /\ prefsWrites' = prefsWrites + 1

\* saveSettings(): both keys are written from the RAM/RTC copies
saveSettings(summer, sync) ==
    /\ prefsSummerTime' = summer
    /\ prefsLastNtpSync' = sync
    /\ prefsWrites' = prefsWrites + 1

\* ---------------------------------------------------------- initial states
\* A sleeping device holding one of the history files `files`, whose last
\* successful sync was `age` seconds ago (0: never synced).
InitFrom(files, ages, builds) ==
    /\ pc = "asleep"
    /\ wakes = 0
    /\ \E f \in files :
         /\ file = f
         /\ flashEntryCount = Len(f)
         /\ oldestTimestamp = IF Len(f) = 0 THEN 0 ELSE f[1].timestamp
         /\ newestTimestamp = IF Len(f) = 0 THEN 0 ELSE f[Len(f)].timestamp
    /\ \E age \in ages :
         /\ lastNtpSync = IF age = 0 THEN 0 ELSE T0 - age
         /\ prefsLastNtpSync = lastNtpSync
    /\ prefsSummerTime = FALSE
    /\ prefsWrites = 0
    /\ compileTime \in builds
    /\ backgroundReading = TRUE
    /\ epoch = T0
    /\ trueTime = T0
    /\ millis = 0
    /\ ramBuffer = EmptyRamBuffer
    /\ ramBufferCount = 0
    /\ displayAvailable = FALSE
    /\ sensorAvailable = FALSE
    /\ isSummerTime = FALSE
    /\ currentMode = MODE_OVERVIEW
    /\ currentRange = RANGE_DAILY
    /\ timeOffset = 0
    /\ historyIndex = 0
    /\ encoderTicks = 0
    /\ lastEncoderState = 0
    /\ clkEdges = 0
    /\ buttonPressed = FALSE
    /\ longPress = FALSE
    /\ buttonPressStart = 0
    /\ lastEncoderTime = 0
    /\ lastActivityTime = 0
    /\ encoderPos = 0
    /\ lastProcessedTicks = 0
    /\ mounted = FALSE
    /\ swLevel = 1
    /\ isrAttached = FALSE
    /\ radioOn = FALSE
    /\ syncAttempted = FALSE
    /\ ntpSuccess = FALSE
    /\ everSynced = (lastNtpSync # 0)
    /\ wakeCause = "NONE"
    /\ timerArmed = TRUE
    /\ gpioArmed = TRUE
    /\ faults = 0
    /\ last = "init"
    /\ drew = FALSE
    /\ millisFirst = TRUE
    /\ timeoutOperand = 0
    /\ pressSeen = FALSE

\* the same with the history given by its number of records
InitWith(lens, ages, builds) == InitFrom({InitFile(n) : n \in lens}, ages, builds)

\* ------------------------------------------------------------ boot sequence
\* The chip leaves deep sleep (or powers on) `d` seconds later and setup()
\* runs to the end of loadSettings().  sw is the button level at that moment.
WakeUp(cause, d, sw) ==
    /\ pc = "asleep"
    /\ wakes < MaxWakes
    /\ cause = "TIMER" => timerArmed /\ d = SamplePeriod /\ sw = 1
    /\ cause = "GPIO" => gpioArmed /\ (timerArmed => d < SamplePeriod)
    /\ cause = "UNDEFINED" => sw = 1
    /\ wakes' = wakes + 1
    /\ wakeCause' = cause
    /\ trueTime' = trueTime + d
    /\ epoch' = IF cause = "UNDEFINED" THEN 0 ELSE epoch + d
    /\ millis' = 0
    \* RTC_DATA_ATTR cells: kept over deep sleep, zero after power-on
    /\ flashEntryCount' = IF cause = "UNDEFINED" THEN 0 ELSE flashEntryCount
    /\ oldestTimestamp' = IF cause = "UNDEFINED" THEN 0 ELSE oldestTimestamp
    /\ newestTimestamp' = IF cause = "UNDEFINED" THEN 0 ELSE newestTimestamp
    /\ backgroundReading' = (cause = "TIMER")
    \* cold boot clears the stored last-sync value, then loadSettings()
    /\ prefsLastNtpSync' = IF cause = "UNDEFINED" THEN 0 ELSE prefsLastNtpSync
    /\ prefsWrites' = IF cause = "UNDEFINED" THEN prefsWrites + 1 ELSE prefsWrites
    /\ lastNtpSync' = prefsLastNtpSync'
    /\ isSummerTime' = prefsSummerTime
    \* ordinary globals start from their initialisers
    /\ ramBuffer' = EmptyRamBuffer
    /\ ramBufferCount' = 0
    /\ displayAvailable' = FALSE
    /\ sensorAvailable' = FALSE
    /\ currentMode' = MODE_OVERVIEW
    /\ currentRange' = RANGE_DAILY
    /\ timeOffset' = 0
    /\ historyIndex' = 0
    /\ encoderTicks' = 0
    /\ lastEncoderState' = 0
    /\ clkEdges' = 0
    /\ buttonPressed' = FALSE
    /\ longPress' = FALSE
    /\ buttonPressStart' = 0
    /\ lastEncoderTime' = 0
    /\ lastActivityTime' = 0
    /\ encoderPos' = 0
    /\ lastProcessedTicks' = 0
    /\ mounted' = FALSE
    /\ swLevel' = sw
    /\ isrAttached' = FALSE
    /\ radioOn' = FALSE
    /\ syncAttempted' = FALSE
    /\ ntpSuccess' = FALSE
    /\ everSynced' = (cause # "UNDEFINED" /\ everSynced)
    /\ timerArmed' = FALSE
    /\ gpioArmed' = FALSE
    /\ faults' = 0
    /\ pc' = "sync"
    /\ last' = "wake"
    /\ drew' = FALSE
    /\ pressSeen' = FALSE
    /\ UNCHANGED <<file, prefsSummerTime, compileTime, testVars>>

\* a faulty variant of shouldSyncNtp: the staleness test is inclusive
shouldSyncNtp_Inclusive ==
    \/ backgroundReading
    \/ lastNtpSync = 0
    \/ epoch - lastNtpSync >= NTP_STALENESS_INTERVAL

\* shouldSyncNtp()
shouldSyncNtp ==
    \/ backgroundReading
    \/ lastNtpSync = 0
    \/ epoch - lastNtpSync > NTP_STALENESS_INTERVAL

\* timeIsSane() applied to an epoch value
timeIsSane(e) == e >= SANE_EPOCH

\* setup(): the sync gate and, when it is open, syncTimeWithNTP().  outcome
\* is what the call meets: "ok", "nowifi" (no association), "nontp" (no
\* time within 10 s); "skip" when the gate is closed.
SyncTimeWithNTP(outcome) ==
    /\ pc = "sync"
    /\ outcome = "skip" <=> ~shouldSyncNtp
    /\ LET ok == outcome = "ok"
           tried == outcome # "skip"
       IN /\ epoch' = (IF ok THEN trueTime ELSE epoch)
          /\ lastNtpSync' = (IF ok THEN trueTime ELSE lastNtpSync)
          /\ IF ok THEN saveSettings(isSummerTime, trueTime)
                   ELSE UNCHANGED prefsVars
          /\ syncAttempted' = tried
          /\ ntpSuccess' = ok
          /\ everSynced' = (everSynced \/ ok)
          \* only the success path powers the radio off again
          /\ radioOn' = (tried /\ ~ok)
    /\ pc' = "fallback"
    /\ last' = "sync"
    /\ drew' = FALSE
    /\ UNCHANGED <<testVars, wakes, pressSeen,
                   file, compileTime, backgroundReading, flashEntryCount,
                   oldestTimestamp, newestTimestamp, trueTime, millis, ramBuffer,
                   ramBufferCount, displayAvailable, sensorAvailable, isSummerTime,
                   uiVars, encVars, btnVars, lastActivityTime, mounted, isrAttached,
                   wakeCause, sleepVars, faults>>

\* a faulty variant of FallbackEpoch: no default instant without COMPILE_TIME
FallbackEpoch_NoDefault == IF compileTime # 0 THEN compileTime ELSE epoch

\* the instant setup() falls back to: COMPILE_TIME when the build defines
\* it, 2026-01-16 12:00:00 UTC otherwise
FallbackEpoch == IF compileTime # 0 THEN compileTime ELSE DEFAULT_EPOCH

\* setup(): the fallback after a failed sync of a device that never synced,
\* then the sanity check
TimeSetup ==
    /\ pc = "fallback"
    /\ LET fb == syncAttempted /\ ~ntpSuccess /\ lastNtpSync = 0
           e2 == IF fb THEN FallbackEpoch ELSE epoch
           s2 == IF fb /\ compileTime # 0 THEN compileTime ELSE lastNtpSync
           insane == ~timeIsSane(e2)
           e3 == IF insane THEN FallbackEpoch ELSE e2
           s3 == IF insane /\ compileTime # 0 THEN compileTime ELSE s2
           saves == (IF fb /\ compileTime # 0 THEN 1 ELSE 0)
                    + (IF insane /\ compileTime # 0 THEN 1 ELSE 0)
       IN /\ epoch' = e3
          /\ lastNtpSync' = s3
          /\ IF saves > 0
               THEN /\ prefsSummerTime' = isSummerTime
                    /\ prefsLastNtpSync' = s3
                    /\ prefsWrites' = prefsWrites + saves
               ELSE UNCHANGED prefsVars
    /\ pc' = "periph"
    /\ last' = "timesetup"
    /\ drew' = FALSE
    /\ UNCHANGED <<testVars, wakes, pressSeen,
                   file, compileTime, backgroundReading, flashEntryCount,
                   oldestTimestamp, newestTimestamp, trueTime, millis, ramBuffer,
                   ramBufferCount, displayAvailable, sensorAvailable, isSummerTime,
                   uiVars, encVars, btnVars, lastActivityTime, mounted, isrAttached,
                   radioOn, syncVars, wakeCause, sleepVars, faults>>

\* setup(): Wire.begin, setupEncoder(), initDisplay() on an interactive wake,
\* initSensor().  dispOk / sensOk: the peripheral answers on the bus.
Peripherals(dispOk, sensOk) ==
    /\ pc = "periph"
    \* setupEncoder(): CLK and DT idle high behind their pull-ups
    /\ lastEncoderState' = 3
    /\ clkEdges' = 0
    /\ encoderTicks' = 0
    /\ encoderPos' = 0
    /\ lastProcessedTicks' = 0
    /\ isrAttached' = TRUE
    /\ displayAvailable' = (~backgroundReading /\ dispOk)
    /\ sensorAvailable' = sensOk
    /\ pc' = "load"
    /\ last' = "periph"
    \* initDisplay() clears the display it has detected
    /\ drew' = displayAvailable'
    /\ UNCHANGED <<testVars, wakes, pressSeen,
                   prefsVars, rtcVars, clockVars, file, ramBuffer,
                   ramBufferCount, isSummerTime, uiVars, lastEncoderTime, btnVars,
                   lastActivityTime, mounted, radioOn, syncVars, wakeCause,
                   compileTime, sleepVars, faults>>

\* ------------------------------------------------------------ history store
\* LittleFS.begin(): an already mounted filesystem stays mounted; otherwise
\* the mount attempt succeeds or fails (mountOk).
MountResult(mountOk) == mounted \/ mountOk

\* the tail of the file read into the mirror by loadRamBuffer()
LoadedBuffer(total, cnt) ==
    [i \in 0..(RAM_BUFFER_SIZE - 1) |->
        IF i < cnt THEN file[total - cnt + i + 1] ELSE ramBuffer[i]]

\* loadRamBuffer()
LoadRamBuffer(mountOk) ==
    /\ pc = "load"
    /\ mounted => mountOk
    /\ mounted' = MountResult(mountOk)
    /\ faults' = IF mounted' THEN faults ELSE faults + 1
    /\ IF ~mounted'
         THEN UNCHANGED <<flashEntryCount, ramBufferCount, ramBuffer,
                          oldestTimestamp, newestTimestamp>>
         ELSE IF Len(file) = 0
           THEN /\ flashEntryCount' = 0
                /\ ramBufferCount' = 0
                /\ UNCHANGED <<ramBuffer, oldestTimestamp, newestTimestamp>>
           ELSE LET total == Len(file)
                    cnt == Min(total, RAM_BUFFER_SIZE)
                IN /\ flashEntryCount' = total
                   /\ ramBufferCount' = cnt
                   /\ ramBuffer' = LoadedBuffer(total, cnt)
                   /\ newestTimestamp' = ramBuffer'[cnt - 1].timestamp
                   /\ oldestTimestamp' = file[1].timestamp
    /\ pc' = "log"
    /\ last' = "load"
    /\ drew' = FALSE
    /\ UNCHANGED <<testVars, wakes, pressSeen,
                   file, prefsVars, compileTime, backgroundReading,
                   lastNtpSync, clockVars, displayAvailable, sensorAvailable,
                   isSummerTime, uiVars, encVars, btnVars, lastActivityTime,
                   isrAttached, radioOn, syncVars, wakeCause, sleepVars>>

\* a faulty variant of PushedBuffer: at capacity the last slot is overwritten without
\* the shift
PushedBuffer_NoShift(data) ==
    IF ramBufferCount < RAM_BUFFER_SIZE
      THEN [ramBuffer EXCEPT ![ramBufferCount] = data]
      ELSE [ramBuffer EXCEPT ![RAM_BUFFER_SIZE - 1] = data]

\* the mirror after logReading() has pushed data into it
PushedBuffer(data) ==
    IF ramBufferCount < RAM_BUFFER_SIZE
      THEN [ramBuffer EXCEPT ![ramBufferCount] = data]
      ELSE [i \in 0..(RAM_BUFFER_SIZE - 1) |->
              IF i < RAM_BUFFER_SIZE - 1 THEN ramBuffer[i + 1] ELSE data]

PushedCount == IF ramBufferCount < RAM_BUFFER_SIZE THEN ramBufferCount + 1
               ELSE ramBufferCount

\* logReading(data): the mirror first, then the flash file
logReading(data, mountOk, openOk) ==
    /\ ramBuffer' = PushedBuffer(data)
    /\ ramBufferCount' = PushedCount
    /\ mounted' = MountResult(mountOk)
    /\ IF mounted' /\ openOk
         THEN /\ file' = Append(file, data)
              /\ flashEntryCount' = flashEntryCount + 1
              /\ newestTimestamp' = data.timestamp
              /\ oldestTimestamp' = IF flashEntryCount' = 1 THEN data.timestamp
                                    ELSE oldestTimestamp
              /\ faults' = faults
         ELSE /\ UNCHANGED <<file, flashEntryCount, newestTimestamp, oldestTimestamp>>
              /\ faults' = faults + 1

\* readAndLogSensor(): one sample, stamped with the wall clock, appended
ReadAndLogSensor(v, mountOk, openOk) ==
    /\ pc = "log"
    /\ mounted => mountOk
    /\ ~mountOk => openOk
    /\ IF sensorAvailable
         THEN logReading(SensorData(epoch, v), mountOk, openOk)
         ELSE /\ mountOk /\ openOk
              /\ UNCHANGED storeVars
    /\ pc' = "post"
    /\ last' = IF sensorAvailable
                 THEN (IF mounted' /\ openOk THEN "append" ELSE "appendFailed")
                 ELSE "noSensor"
    /\ drew' = FALSE
    /\ UNCHANGED <<testVars, wakes, pressSeen,
                   prefsVars, compileTime, backgroundReading, lastNtpSync,
                   clockVars, displayAvailable, sensorAvailable, isSummerTime,
                   uiVars, encVars, btnVars, lastActivityTime, isrAttached,
                   radioOn, syncVars, wakeCause, sleepVars>>

\* getHistoryEntry(index) when the file path can (fsOk) or cannot mount and
\* open the file.  The window test compares unsigned 32-bit words.
getHistoryEntry(index, fsOk) ==
    IF /\ UGe(index, flashEntryCount - ramBufferCount)
       /\ ULt(index, flashEntryCount)
      THEN ramBuffer[ramBufferCount - (flashEntryCount - index)]
      ELSE IF fsOk /\ index >= 0 /\ index < Len(file)
             THEN file[index + 1]
             ELSE ZeroData

\* clearHistory()
clearHistory(mountOk) ==
    /\ mounted' = MountResult(mountOk)
    /\ IF mounted'
         THEN /\ file' = <<>>
              /\ flashEntryCount' = 0
              /\ ramBufferCount' = 0
              /\ oldestTimestamp' = 0
              /\ newestTimestamp' = 0
              /\ faults' = faults
         ELSE /\ UNCHANGED <<file, flashEntryCount, ramBufferCount,
                             oldestTimestamp, newestTimestamp>>
              /\ faults' = faults + 1
    /\ UNCHANGED ramBuffer

\* ------------------------------------------------------------ graph series
\* getSeries(): the most points a series holds
maxPoints == 120

\* getSeries(): records added on each side of the estimated span
SpanMargin == 10

\* getSeries(): the seconds a range covers
rangeSeconds(range) ==
    CASE range = RANGE_DAILY -> 86400
      [] range = RANGE_WEEKLY -> 604800
      [] range = RANGE_MONTHLY -> 2592000
      [] OTHER -> 31536000

\* getSeries(): the window of a range and pan offset, both ends included
startTime(range, offset) == epoch - rangeSeconds(range) * (offset + 1)
endTime(range, offset) == epoch - rangeSeconds(range) * offset

\* getSeries(): (int)(d * entriesPerSecond), the record index estimated for
\* an instant d seconds after the oldest record.  The quotient is computed
\* exactly and truncated towards zero; the code goes through a single
\* precision float.  Only evaluated with newestTimestamp > oldestTimestamp.
ScaledIndex(d) ==
    LET span == newestTimestamp - oldestTimestamp
        a == Abs(d)
        q == (a \div span) * flashEntryCount
               + ((a % span) * flashEntryCount) \div span
    IN IF d >= 0 THEN q ELSE 0 - q

\* getSeries(): the scanned span [estimatedStart, estimatedEnd)
estimatedStart(range, offset) ==
    IF flashEntryCount > 0 /\ newestTimestamp > oldestTimestamp
      THEN Max(0, ScaledIndex(startTime(range, offset) - oldestTimestamp)
                    - SpanMargin)
      ELSE 0

estimatedEnd(range, offset) ==
    IF flashEntryCount > 0 /\ newestTimestamp > oldestTimestamp
      THEN Min(flashEntryCount,
               ScaledIndex(endTime(range, offset) - oldestTimestamp)
                 + SpanMargin)
      ELSE flashEntryCount

\* getSeries(): the test both passes apply to record i, the window being
\* [from, to]
InWindow(i, from, to) ==
    LET data == getHistoryEntry(i, TRUE)
    IN data.timestamp >= from /\ data.timestamp <= to

\* getSeries(): the first pass over the span [first, final)
matchingCount(first, final, from, to) ==
    Cardinality({i \in first..(final - 1) : InWindow(i, from, to)})

\* getSeries(): the downsampling step
step(matching) == Max(1, matching \div maxPoints)

\* getSeries(): one iteration of the second pass, on record i.  st holds the
\* loop's counter `collected` and acc, the indexes of the records stored so
\* far; the loop has ended once acc holds maxPoints of them.  The skip branch
\* advances the counter before the record is read.
CollectStep(i, st, stp, from, to) ==
    IF Len(st.acc) >= maxPoints THEN st
    ELSE IF st.collected % stp # 0
      THEN [st EXCEPT !.collected = @ + 1]
    ELSE IF InWindow(i, from, to)
      THEN [collected |-> st.collected + 1, acc |-> Append(st.acc, i)]
    ELSE st

\* getSeries(): the iterations of the second pass on records lo .. hi - 1 in
\* ascending order, split in halves
RECURSIVE CollectRange(_, _, _, _, _, _)
CollectRange(lo, hi, st, stp, from, to) ==
    IF hi <= lo THEN st
    ELSE IF hi = lo + 1 THEN CollectStep(lo, st, stp, from, to)
    ELSE LET mid == (lo + hi) \div 2
             half == CollectRange(lo, mid, st, stp, from, to)
         IN IF half.collected >= 0
              THEN CollectRange(mid, hi, half, stp, from, to)
              ELSE half

\* getSeries(range, offset): the indexes of the records whose values fill
\* values[0 .. *count - 1], in that order
getSeries(range, offset) ==
    LET from == startTime(range, offset)
        to == endTime(range, offset)
        first == estimatedStart(range, offset)
        final == estimatedEnd(range, offset)
        matching == matchingCount(first, final, from, to)
    IN IF \/ flashEntryCount = 0
          \/ to < oldestTimestamp
          \/ from > newestTimestamp
         THEN <<>>
       ELSE IF matching = 0 THEN <<>>
       ELSE CollectRange(first, final, [collected |-> 0, acc |-> <<>>],
                         step(matching), from, to).acc

\* a faulty variant of enterDeepSleep: the non-periodic branch is taken
\* whatever the argument
enterDeepSleep_NonPeriodic(periodicWakeup) ==
    /\ backgroundReading' = FALSE
    /\ timerArmed' = FALSE
    /\ gpioArmed' = TRUE
    /\ pc' = "asleep"

\* a faulty variant of enterDeepSleep: the timer wake is never armed
enterDeepSleep_NoTimer(periodicWakeup) ==
    /\ backgroundReading' = periodicWakeup
    /\ timerArmed' = FALSE
    /\ gpioArmed' = TRUE
    /\ pc' = "asleep"

\* enterDeepSleep(periodicWakeup)
enterDeepSleep(periodicWakeup) ==
    /\ backgroundReading' = periodicWakeup
    /\ timerArmed' = periodicWakeup
    /\ gpioArmed' = TRUE
    /\ pc' = "asleep"

\* displayOverview() draws only on a detected display and a non-empty mirror
displayOverviewDraws == displayAvailable /\ ramBufferCount # 0

\* setup() after the sample: back to sleep on a background wake, else the
\* UI session starts
SetupEnd ==
    /\ pc = "post"
    /\ IF backgroundReading
         THEN /\ enterDeepSleep(TRUE)
              /\ UNCHANGED <<lastActivityTime, historyIndex, timeOffset, currentMode>>
         ELSE /\ lastActivityTime' = millis
              /\ historyIndex' = IF flashEntryCount > 0 THEN flashEntryCount - 1 ELSE 0
              /\ timeOffset' = 0
              /\ currentMode' = MODE_OVERVIEW
              /\ pc' = "long"
              /\ UNCHANGED <<backgroundReading, sleepVars>>
    /\ last' = IF backgroundReading THEN "sleep" ELSE "uiStart"
    \* enterDeepSleep() switches a detected display off; displayOverview()
    /\ drew' = IF backgroundReading THEN displayAvailable
               ELSE displayOverviewDraws
    /\ UNCHANGED <<testVars, wakes, pressSeen,
                   file, prefsVars, compileTime, flashEntryCount,
                   oldestTimestamp, newestTimestamp, lastNtpSync, clockVars,
                   ramBuffer, ramBufferCount, displayAvailable, sensorAvailable,
                   isSummerTime, currentRange, encVars, btnVars, mounted,
                   isrAttached, radioOn, syncVars, wakeCause, faults>>

\* ------------------------------------------------------------------- loop()
\* positions of the interactive loop
LoopPcs == {"long", "short", "enc", "sleep"}

IsGraphMode(m) == m = MODE_GRAPH_TEMP \/ m = MODE_GRAPH_HUMID

\* displayHistory(): the index clamp it applies before drawing
displayHistoryIndex(h) ==
    IF ~displayAvailable \/ flashEntryCount = 0 THEN h
    ELSE LET h1 == IF h < 0 THEN 0 ELSE h
         IN IF h1 >= flashEntryCount THEN flashEntryCount - 1 ELSE h1

\* loop(): the long-press section
LoopLongPress(mountOk) ==
    /\ pc = "long"
    /\ (~longPress \/ currentMode # MODE_SETTINGS \/ mounted) => mountOk
    /\ IF longPress
         THEN /\ longPress' = FALSE
              /\ IF IsGraphMode(currentMode)
                   THEN /\ currentRange' = (currentRange + 1) % 4
                        /\ timeOffset' = 0
                        /\ UNCHANGED storeVars
                   ELSE IF currentMode = MODE_SETTINGS
                     THEN /\ clearHistory(mountOk)
                          /\ UNCHANGED <<currentRange, timeOffset>>
                     ELSE UNCHANGED <<currentRange, timeOffset, storeVars>>
              /\ lastActivityTime' = millis
              \* drawGraph() checks displayAvailable; the confirmation shown
              \* after clearHistory() is drawn without that check
              /\ drew' = IF IsGraphMode(currentMode) THEN displayAvailable
                         ELSE currentMode = MODE_SETTINGS
              /\ last' = IF currentMode = MODE_SETTINGS THEN "clearHistory"
                         ELSE "longPress"
         ELSE /\ UNCHANGED <<longPress, currentRange, timeOffset, storeVars,
                             lastActivityTime>>
              /\ last' = "loop"
              /\ drew' = FALSE
    /\ pc' = "short"
    /\ UNCHANGED <<testVars, wakes, pressSeen,
                   prefsVars, compileTime, backgroundReading, lastNtpSync,
                   clockVars, displayAvailable, sensorAvailable, isSummerTime,
                   currentMode, historyIndex, encVars, buttonPressed,
                   buttonPressStart, swLevel, isrAttached, radioOn, syncVars,
                   wakeCause, sleepVars>>

\* a faulty variant of NextMode: the cycle leaves Settings out
NextMode_Mod4(m) == (m + 1) % 4

\* the successor of a mode in the short-press cycle
NextMode(m) == (m + 1) % 5

\* loop(): the short-press section
LoopShortPress ==
    /\ pc = "short"
    /\ IF buttonPressed
         THEN /\ buttonPressed' = FALSE
              /\ IF currentMode = MODE_SETTINGS
                   THEN /\ saveSettings(isSummerTime, lastNtpSync)
                        /\ currentMode' = MODE_OVERVIEW
                        /\ UNCHANGED <<historyIndex, timeOffset, currentRange>>
                   ELSE /\ currentMode' = NextMode(currentMode)
                        /\ UNCHANGED prefsVars
                        /\ historyIndex' =
                             IF currentMode' = MODE_HISTORY
                               THEN displayHistoryIndex(
                                      IF flashEntryCount > 0
                                        THEN flashEntryCount - 1 ELSE 0)
                               ELSE historyIndex
                        /\ timeOffset' = IF IsGraphMode(currentMode') THEN 0
                                         ELSE timeOffset
                        /\ currentRange' = IF IsGraphMode(currentMode')
                                             THEN RANGE_DAILY ELSE currentRange
              /\ lastActivityTime' = millis
              /\ last' = "shortPress"
              /\ drew' = IF currentMode' = MODE_OVERVIEW THEN displayOverviewDraws
                         ELSE displayAvailable
         ELSE /\ UNCHANGED <<buttonPressed, prefsVars, uiVars, lastActivityTime>>
              /\ last' = "loop"
              /\ drew' = FALSE
    /\ pc' = "enc"
    /\ UNCHANGED <<testVars, wakes, pressSeen,
                   file, compileTime, rtcVars, clockVars, ramBuffer,
                   ramBufferCount, displayAvailable, sensorAvailable, isSummerTime,
                   encVars, longPress, buttonPressStart, swLevel, mounted,
                   isrAttached, radioOn, syncVars, wakeCause, sleepVars,
                   faults>>

\* the history index after a rotation of delta steps in History mode
ScrolledHistoryIndex(delta) ==
    LET h0 == historyIndex - delta
        h1 == IF h0 < 0 THEN 0 ELSE h0
        h2 == IF h1 >= flashEntryCount THEN flashEntryCount - 1 ELSE h1
    IN displayHistoryIndex(h2)

\* the pan offset after a rotation of delta steps in a graph mode
ScrolledTimeOffset(delta) ==
    LET t0 == timeOffset - delta
        t1 == IF t0 < 0 THEN 0 ELSE t0
    IN IF t1 > MAX_TIME_OFFSET THEN MAX_TIME_OFFSET ELSE t1

\* loop(): the rotation section (snapshot, reconciliation, dispatch)
LoopEncoder ==
    /\ pc = "enc"
    /\ LET ticksSnapshot == encoderTicks
           deltaTicks == ticksSnapshot - lastProcessedTicks
           steps == TruncDiv(deltaTicks, ENCODER_DETENTS_PER_CLICK)
       IN IF Abs(deltaTicks) >= ENCODER_DETENTS_PER_CLICK
            THEN /\ lastProcessedTicks' =
                      lastProcessedTicks + steps * ENCODER_DETENTS_PER_CLICK
                 /\ encoderPos' = encoderPos + steps
                 /\ historyIndex' = IF currentMode = MODE_HISTORY
                                      THEN ScrolledHistoryIndex(steps)
                                      ELSE historyIndex
                 /\ timeOffset' = IF IsGraphMode(currentMode)
                                    THEN ScrolledTimeOffset(steps)
                                    ELSE timeOffset
                 /\ isSummerTime' = IF currentMode = MODE_SETTINGS
                                      THEN ~isSummerTime ELSE isSummerTime
                 /\ lastActivityTime' = millis
                 /\ last' = "rotation"
                 /\ drew' = (currentMode # MODE_OVERVIEW /\ displayAvailable)
            ELSE /\ UNCHANGED <<lastProcessedTicks, encoderPos, historyIndex,
                                timeOffset, isSummerTime, lastActivityTime>>
                 /\ last' = "loop"
                 \* the once-a-second redraw of the overview, which sits
                 \* behind displayOverview()'s own checks, is not followed
                 /\ drew' = FALSE
    /\ pc' = "sleep"
    /\ UNCHANGED <<wakes, pressSeen,
                   prefsVars, compileTime, rtcVars, clockVars, file,
                   ramBuffer, ramBufferCount, displayAvailable, sensorAvailable,
                   currentMode, currentRange, encoderTicks, lastEncoderState, clkEdges,
                   lastEncoderTime, btnVars, mounted, isrAttached, radioOn,
                   syncVars, wakeCause, sleepVars, faults>>
    \* the timeout test starts: the first of its two operands is evaluated,
    \* the other one and the comparison follow in LoopSleepCheck
    /\ \E order \in BOOLEAN :
          /\ millisFirst' = order
          /\ timeoutOperand' = IF order THEN millis ELSE lastActivityTime'

\* millis() - lastActivityTime as the timeout test computes it: one operand
\* was evaluated at the end of the previous step, the other is read now
ElapsedSeen ==
    IF millisFirst THEN timeoutOperand - lastActivityTime
    ELSE millis - timeoutOperand

\* a faulty variant of SleepDue: the test is inclusive
SleepDue_Inclusive == UGe(ElapsedSeen, SLEEP_TIMEOUT)

\* the inactivity test of loop(), in unsigned milliseconds
SleepDue == ULt(SLEEP_TIMEOUT, ElapsedSeen)

\* loop(): the sleep timeout
LoopSleepCheck ==
    /\ pc = "sleep"
    /\ IF SleepDue
         THEN /\ enterDeepSleep(TRUE)
              /\ last' = "sleep"
              /\ drew' = displayAvailable
         ELSE /\ pc' = "long"
              /\ last' = "loop"
              /\ drew' = FALSE
              /\ UNCHANGED <<backgroundReading, sleepVars>>
    /\ millisFirst' = TRUE
    /\ timeoutOperand' = 0
    /\ UNCHANGED <<wakes, pressSeen,
                   file, prefsVars, compileTime, flashEntryCount,
                   oldestTimestamp, newestTimestamp, lastNtpSync, clockVars,
                   ramBuffer, ramBufferCount, displayAvailable, sensorAvailable,
                   isSummerTime, uiVars, encVars, btnVars, lastActivityTime,
                   mounted, isrAttached, radioOn, syncVars, wakeCause, faults>>

\* -------------------------------------------------------------- environment
Awake == pc # "asleep"

\* d milliseconds pass while the chip is awake
Tick(d) ==
    /\ Awake
    /\ isrAttached
    /\ millis - lastActivityTime <= SLEEP_TIMEOUT
    /\ IF d < SLEEP_TIMEOUT
         THEN millis + d <= MaxBusyMillis \/ millis >= SLEEP_TIMEOUT
         ELSE millis <= MaxBusyMillis
    /\ millis + d <= SLEEP_TIMEOUT + MaxBusyMillis + 1
    /\ millis' = millis + d
    /\ epoch' = epoch + (d \div 1000)
    /\ trueTime' = trueTime + (d \div 1000)
    /\ UNCHANGED <<testVars, pc, wakes, pressSeen,
                   file, prefsVars, compileTime, rtcVars, ramBuffer,
                   ramBufferCount, displayAvailable, sensorAvailable, isSummerTime,
                   uiVars, encVars, btnVars, lastActivityTime, mounted,
                   isrAttached, radioOn, syncVars, wakeCause, sleepVars,
                   faults, last, drew>>

\* a faulty variant of buttonISR: a press of exactly 50 ms counts as short
buttonISR_InclusiveShort(level) ==
    LET now == millis
        pressDuration == now - buttonPressStart
    IN /\ buttonPressStart' = IF level = 0 THEN now ELSE buttonPressStart
       /\ buttonPressed' =
            IF /\ level = 1
               /\ UGe(pressDuration, SHORT_PRESS_MIN)
               /\ ULt(pressDuration, LONG_PRESS_MIN)
              THEN TRUE ELSE buttonPressed
       /\ longPress' =
            IF level = 1 /\ UGe(pressDuration, LONG_PRESS_MIN)
              THEN TRUE ELSE longPress
       /\ lastActivityTime' = now

\* buttonISR(), entered with the pin at `level`
buttonISR(level) ==
    LET now == millis
        pressDuration == now - buttonPressStart
    IN /\ buttonPressStart' = IF level = 0 THEN now ELSE buttonPressStart
       /\ buttonPressed' =
            IF /\ level = 1
               /\ ULt(SHORT_PRESS_MIN, pressDuration)
               /\ ULt(pressDuration, LONG_PRESS_MIN)
              THEN TRUE ELSE buttonPressed
       /\ longPress' =
            IF level = 1 /\ UGe(pressDuration, LONG_PRESS_MIN)
              THEN TRUE ELSE longPress
       /\ lastActivityTime' = now

\* the button changes level; the CHANGE interrupt runs once it is attached
ButtonEdge ==
    /\ Awake
    /\ millis <= MaxBusyMillis
    /\ swLevel' = 1 - swLevel
    /\ pressSeen' = (pressSeen \/ (isrAttached /\ swLevel' = 0))
    /\ IF isrAttached
         THEN buttonISR(swLevel')
         ELSE UNCHANGED <<buttonPressStart, buttonPressed, longPress,
                          lastActivityTime>>
    /\ UNCHANGED <<testVars, pc, wakes, file, prefsVars, compileTime, rtcVars, clockVars,
                   ramBuffer, ramBufferCount, displayAvailable, sensorAvailable,
                   isSummerTime, uiVars, encVars, mounted, isrAttached, radioOn,
                   syncVars, wakeCause, sleepVars, faults, last, drew>>

\* encoderISR(): a falling edge of CLK, the pins then reading clk and dt
EncoderISR(clk, dt) ==
    /\ Awake
    /\ isrAttached
    /\ millis <= MaxBusyMillis
    /\ LET now == millis
           accepted == lastEncoderState >= 2 /\ clk = 0
       IN IF ULt(now - lastEncoderTime, ENCODER_DEBOUNCE_MS)
            THEN UNCHANGED <<encoderTicks, lastEncoderTime, lastActivityTime,
                             lastEncoderState, clkEdges>>
            ELSE /\ encoderTicks' = IF accepted
                                      THEN (IF dt = 1 THEN encoderTicks + 1
                                            ELSE encoderTicks - 1)
                                      ELSE encoderTicks
                 /\ lastEncoderTime' = IF accepted THEN now ELSE lastEncoderTime
                 /\ lastActivityTime' = IF accepted THEN now ELSE lastActivityTime
                 /\ lastEncoderState' = clk * 2 + dt
                 /\ clkEdges' = IF clk = 0 THEN clkEdges + 1 ELSE clkEdges
    /\ UNCHANGED <<testVars, pc, wakes, pressSeen,
                   file, prefsVars, compileTime, rtcVars, clockVars,
                   ramBuffer, ramBufferCount, displayAvailable, sensorAvailable,
                   isSummerTime, uiVars, encoderPos, lastProcessedTicks, btnVars,
                   mounted, isrAttached, radioOn, syncVars, wakeCause,
                   sleepVars, faults, last, drew>>

\* ----------------------------------------------------------- specifications
\* the knob is followed for fewer than n raw ticks and n falling edges
KnobWithin(n) == Abs(encoderTicks) < n /\ clkEdges < n

WakeCauses == {"GPIO", "TIMER", "UNDEFINED"}
SyncOutcomes == {"ok", "nowifi", "nontp", "skip"}
\* seconds asleep before a wake: a press after ten minutes, or the timer
GpioSleepSecs == SamplePeriod \div 3
SleepSecs == {GpioSleepSecs, SamplePeriod}
SleepFor(c) == IF c = "TIMER" THEN SamplePeriod ELSE GpioSleepSecs
\* milliseconds between two observed events: a hold shorter than a long
\* press, and an idle stretch of exactly, and of just over, the timeout
TickSteps == {StepMs, SLEEP_TIMEOUT, SLEEP_TIMEOUT + 1}
\* sensor readings
Readings == {21, 22}
\* COMPILE_TIME of a build that defines it (2026-01-10 09:46:40 UTC), after
\* the sanity threshold and before the first state
CompileEpoch == SANE_EPOCH + 812800

\* the main thread's own steps from the end of the boot sequence on
MainSteps ==
    \/ SetupEnd
    \/ LoopShortPress
    \/ LoopEncoder
    \/ LoopSleepCheck

\* Spec: one interactive session driven by the button, the knob being turned
\* in Settings only.  The filesystem may fail to mount; the sensor answers
\* and the file opens.
Init == InitWith({1}, {SamplePeriod}, {0})

Next ==
    \/ \E c \in WakeCauses, sw \in {0, 1} :
          wakes = 0 /\ WakeUp(c, SleepFor(c), sw)
    \/ \E o \in {"ok", "skip"} : SyncTimeWithNTP(o)
    \/ TimeSetup
    \/ \E dispOk \in BOOLEAN : Peripherals(dispOk, TRUE)
    \/ \E m \in BOOLEAN : LoadRamBuffer(m)
    \/ \E m \in BOOLEAN : ReadAndLogSensor(21, m, TRUE)
    \/ \E m \in BOOLEAN : LoopLongPress(m)
    \/ MainSteps
    \/ \E d \in TickSteps : Tick(d)
    \/ ButtonEdge
    \/ \E clk \in {0, 1}, dt \in {0, 1} :
          /\ currentMode = MODE_SETTINGS
          /\ swLevel = 1 /\ ~buttonPressed /\ ~longPress
          /\ KnobWithin(MaxTicks)
          /\ EncoderISR(clk, dt)

Spec == Init /\ [][Next]_vars

\* SpecRotate: one interactive session with rotation.  The user presses the
\* button to reach History or the first graph mode and, once the press is
\* dispatched, turns the knob.
InitRotate == InitWith({0, 2}, {SamplePeriod}, {0})

NextRotate ==
    \/ \E c \in {"GPIO", "UNDEFINED"} :
          wakes = 0 /\ WakeUp(c, GpioSleepSecs, 1)
    \/ \E o \in {"ok", "skip"} : SyncTimeWithNTP(o)
    \/ TimeSetup
    \/ \E sensOk \in BOOLEAN : Peripherals(TRUE, sensOk)
    \/ LoadRamBuffer(TRUE)
    \/ ReadAndLogSensor(21, TRUE, TRUE)
    \/ LoopLongPress(TRUE)
    \/ MainSteps
    \/ \E d \in TickSteps : pc = "long" /\ Tick(d)
    \/ currentMode < MODE_GRAPH_TEMP /\ lastEncoderTime = 0 /\ ButtonEdge
    \/ \E clk \in {0, 1}, dt \in {0, 1} :
          /\ currentMode # MODE_OVERVIEW
          /\ swLevel = 1 /\ ~buttonPressed /\ ~longPress
          /\ KnobWithin(MaxTicks)
          /\ EncoderISR(clk, dt)

SpecRotate == InitRotate /\ [][NextRotate]_vars

\* SpecStore: wake cycles of an untouched device whose flash file is near
\* the mirror capacity; every filesystem and sensor failure.
StoreLens == {0, 1, RAM_BUFFER_SIZE - 1, RAM_BUFFER_SIZE, RAM_BUFFER_SIZE + MaxExtra}

InitStore == InitWith(StoreLens, {SamplePeriod}, {0})

NextStore ==
    \/ \E c \in WakeCauses, d \in SleepSecs : WakeUp(c, d, 1)
    \/ \E o \in {"ok", "nowifi", "skip"} : SyncTimeWithNTP(o)
    \/ TimeSetup
    \/ \E sensOk \in BOOLEAN : Peripherals(TRUE, sensOk)
    \/ \E m \in BOOLEAN : LoadRamBuffer(m)
    \/ \E v \in Readings, m \in BOOLEAN, o \in BOOLEAN : ReadAndLogSensor(v, m, o)
    \/ LoopLongPress(TRUE)
    \/ MainSteps
    \/ Tick(SLEEP_TIMEOUT + 1)

SpecStore == InitStore /\ [][NextStore]_vars

\* SpecSync: the boot-time sync gate for every age of the last sync around
\* the staleness interval, on both builds; no peripheral fails.
SyncAges == {0, NTP_STALENESS_INTERVAL - 1 - GpioSleepSecs,
             NTP_STALENESS_INTERVAL - GpioSleepSecs,
             NTP_STALENESS_INTERVAL + 1 - GpioSleepSecs}

\* COMPILE_TIME of a build made a day before the sanity threshold
OldCompileEpoch == SANE_EPOCH - NTP_STALENESS_INTERVAL

InitSync == InitWith({1}, SyncAges, {0, CompileEpoch, OldCompileEpoch})

NextSync ==
    \/ \E c \in WakeCauses, d \in SleepSecs : WakeUp(c, d, 1)
    \/ \E o \in SyncOutcomes : SyncTimeWithNTP(o)
    \/ TimeSetup
    \/ Peripherals(TRUE, TRUE)
    \/ LoadRamBuffer(TRUE)
    \/ ReadAndLogSensor(21, TRUE, TRUE)
    \/ LoopLongPress(TRUE)
    \/ MainSteps
    \/ Tick(SLEEP_TIMEOUT + 1)

SpecSync == InitSync /\ [][NextSync]_vars

\* SpecPress: one interactive session in which the button is held for
\* durations around the two thresholds of buttonISR(); nothing fails.
PressSteps == {1, SHORT_PRESS_MIN - 1, LONG_PRESS_MIN - SHORT_PRESS_MIN - 2}
\* the hold durations observed: one below, at and above each threshold
HoldTimes == {SHORT_PRESS_MIN - 1, SHORT_PRESS_MIN, SHORT_PRESS_MIN + 1,
              LONG_PRESS_MIN - 1, LONG_PRESS_MIN, LONG_PRESS_MIN + 1}

InitPress == InitWith({1}, {SamplePeriod}, {0})

NextPress ==
    \/ wakes = 0 /\ WakeUp("GPIO", GpioSleepSecs, 1)
    \/ SyncTimeWithNTP("skip")
    \/ TimeSetup
    \/ Peripherals(TRUE, TRUE)
    \/ LoadRamBuffer(TRUE)
    \/ ReadAndLogSensor(21, TRUE, TRUE)
    \/ LoopLongPress(TRUE)
    \/ MainSteps
    \/ \E d \in PressSteps :
          /\ swLevel = 0
          /\ (millis + d - buttonPressStart) \in HoldTimes
          /\ Tick(d)
    \/ /\ pc \in LoopPcs
       /\ swLevel = 1 => millis <= LONG_PRESS_MIN + 1
       /\ ButtonEdge

SpecPress == InitPress /\ [][NextPress]_vars

\* SpecKnob: one interactive session in Overview in which the knob is turned
\* fast: an edge every ENCODER_DEBOUNCE_MS, the loop running at any moment
\* in between; nothing fails and the button is left alone.
MaxBurst == 8

InitKnob == InitWith({1}, {SamplePeriod}, {0})

NextKnob ==
    \/ wakes = 0 /\ WakeUp("GPIO", GpioSleepSecs, 1)
    \/ SyncTimeWithNTP("skip")
    \/ TimeSetup
    \/ Peripherals(TRUE, TRUE)
    \/ LoadRamBuffer(TRUE)
    \/ ReadAndLogSensor(21, TRUE, TRUE)
    \/ LoopLongPress(TRUE)
    \/ MainSteps
    \/ /\ pc \in LoopPcs
       /\ millis < MaxBurst * ENCODER_DEBOUNCE_MS
       /\ Tick(ENCODER_DEBOUNCE_MS)
    \/ \E clk \in {0, 1}, dt \in {0, 1} :
          /\ pc \in LoopPcs
          /\ KnobWithin(MaxBurst)
          /\ EncoderISR(clk, dt)

SpecKnob == InitKnob /\ [][NextKnob]_vars

\* SpecGraph: a session on a device holding several days of half-hourly
\* samples, one of which may bear the default instant the clock took after a
\* power loss with no network.  The button walks the modes and ranges and
\* the knob pans the graph; nothing fails.
MaxHistory == 250

\* 1-based positions of the record written under the default clock (0: none)
GapPositions == {0, 2 * RAM_BUFFER_SIZE}

HistoryWithGap(h) ==
    [i \in 1..MaxHistory |->
        IF i = h THEN SensorData(DEFAULT_EPOCH, 20) ELSE InitFile(MaxHistory)[i]]

InitGraph ==
    InitFrom({HistoryWithGap(h) : h \in GapPositions}, {SamplePeriod}, {0})

NextGraph ==
    \/ wakes = 0 /\ WakeUp("GPIO", GpioSleepSecs, 1)
    \/ SyncTimeWithNTP("skip")
    \/ TimeSetup
    \/ Peripherals(TRUE, TRUE)
    \/ LoadRamBuffer(TRUE)
    \/ ReadAndLogSensor(21, TRUE, TRUE)
    \/ LoopLongPress(TRUE)
    \/ MainSteps
    \/ /\ pc \in LoopPcs
       /\ swLevel = 0
       /\ millis - buttonPressStart < LONG_PRESS_MIN
       /\ Tick(StepMs)
    \/ /\ pc \in LoopPcs
       /\ currentMode # MODE_SETTINGS
       /\ ButtonEdge
    \/ \E clk \in {0, 1}, dt \in {0, 1} :
          /\ pc \in LoopPcs
          /\ IsGraphMode(currentMode)
          /\ KnobWithin(MaxTicks)
          /\ EncoderISR(clk, dt)

SpecGraph == InitGraph /\ [][NextGraph]_vars

\* SpecScreen: one session on a detected display in which the button alone
\* walks the modes and may clear the history in Settings.  The store starts
\* empty or populated, the sensor may be missing; the filesystem works.
ScreenStep == 2 * SHORT_PRESS_MIN

InitScreen == InitWith({0, 1}, {SamplePeriod}, {0})

NextScreen ==
    \/ wakes = 0 /\ WakeUp("GPIO", GpioSleepSecs, 1)
    \/ SyncTimeWithNTP("skip")
    \/ TimeSetup
    \/ \E sensOk \in BOOLEAN : Peripherals(TRUE, sensOk)
    \/ LoadRamBuffer(TRUE)
    \/ ReadAndLogSensor(21, TRUE, TRUE)
    \/ LoopLongPress(TRUE)
    \/ MainSteps
    \/ /\ pc \in LoopPcs
       /\ swLevel = 0
       /\ millis - buttonPressStart < LONG_PRESS_MIN
       /\ Tick(ScreenStep)
    \/ /\ pc \in LoopPcs
       /\ ButtonEdge

SpecScreen == InitScreen /\ [][NextScreen]_vars

\* ------------------------------------------------------------------- claims
\* indexes a caller may read
ReadIndexes == (0 - 1)..(RAM_BUFFER_SIZE + MaxExtra + MaxWakes + 1)

\* the mirror holds the last k records of the log, in log order
MirrorIsTail(total, k) ==
    \A j \in 0..(k - 1) :
        /\ (total - k + j + 1) \in DOMAIN file
        /\ ramBuffer[j] = file[total - k + j + 1]

\* C1: while no filesystem failure has been met in the wake cycle, reading
\* index i returns the record appended at position i, for every i below the
\* number of appended records, from the mirror or from the flash file.
C1_RoundTrip ==
    faults = 0 =>
        \A i \in 0..(Len(file) - 1) : getHistoryEntry(i, TRUE) = file[i + 1]

\* C1 witness: after a reload at boot and a successful append the log is
\* longer than the mirror, which is full
C1_Witness ==
    /\ last = "append"
    /\ faults = 0
    /\ wakes >= 2
    /\ Len(file) > RAM_BUFFER_SIZE
    /\ ramBufferCount = RAM_BUFFER_SIZE
    /\ flashEntryCount = Len(file)

\* C2: after the boot-time load and after the append, the mirror holds
\* exactly min(total, 48) records and they are the most recent ones of the
\* log, in log order, whether or not the mount or the file open failed.
C2_MirrorBound ==
    pc \in {"log", "post", "long", "short", "enc", "sleep"} =>
        LET k == Min(flashEntryCount, RAM_BUFFER_SIZE)
        IN /\ ramBufferCount = k
           /\ MirrorIsTail(flashEntryCount, k)

\* C3: an append whose file open fails (the first failure of the wake
\* cycle: the boot-time load went well) leaves total count, oldest and
\* newest timestamps and every read below the total count as they were.
C3_FailedAppendDrops ==
    [][(pc = "log" /\ faults = 0 /\ last' = "appendFailed" /\ mounted') =>
         /\ flashEntryCount' = flashEntryCount
         /\ oldestTimestamp' = oldestTimestamp
         /\ newestTimestamp' = newestTimestamp
         /\ \A i \in 0..(flashEntryCount - 1) :
               getHistoryEntry(i, TRUE)' = getHistoryEntry(i, TRUE)]_vars

\* C5: after a boot-time load whose mount failed the store is empty:
\* total count 0 and mirror size 0, on every kind of wake.
C5_MountFailureEmpty ==
    (last = "load" /\ ~mounted) =>
        (flashEntryCount = 0 /\ ramBufferCount = 0)

\* C4: clearHistory() ends with total count 0, oldest and newest timestamps
\* 0 and an empty mirror, and a read at any index then returns the all-zero
\* record.
C4_ClearEmpties ==
    last = "clearHistory" =>
        /\ flashEntryCount = 0
        /\ oldestTimestamp = 0
        /\ newestTimestamp = 0
        /\ ramBufferCount = 0
        /\ \A i \in ReadIndexes, fsOk \in BOOLEAN :
              getHistoryEntry(i, fsOk) = ZeroData

\* the successor of each mode in the cycle Overview, History,
\* Temperature-Graph, Humidity-Graph, Settings
CycleSuccessor(m) ==
    CASE m = MODE_OVERVIEW -> MODE_HISTORY
      [] m = MODE_HISTORY -> MODE_GRAPH_TEMP
      [] m = MODE_GRAPH_TEMP -> MODE_GRAPH_HUMID
      [] m = MODE_GRAPH_HUMID -> MODE_SETTINGS
      [] m = MODE_SETTINGS -> MODE_OVERVIEW

\* the step of loop() that dispatches a pending short press / long press
ShortPressDispatched == pc = "short" /\ pc' = "enc" /\ buttonPressed
LongPressDispatched == pc = "long" /\ pc' = "short" /\ longPress

\* C6: a dispatched short press in Settings commits the current
\* daylight-saving value to the settings store and sets the mode to
\* Overview; in any other mode it sets the mode to its cycle successor
\* and commits nothing to the settings store.
C6_ShortPress ==
    [][ShortPressDispatched =>
         IF currentMode = MODE_SETTINGS
           THEN /\ currentMode' = MODE_OVERVIEW
                /\ prefsSummerTime' = isSummerTime
                /\ prefsWrites' = prefsWrites + 1
           ELSE /\ currentMode' = CycleSuccessor(currentMode)
                /\ prefsWrites' = prefsWrites
                /\ UNCHANGED <<prefsSummerTime, prefsLastNtpSync>>]_vars

\* C6 witness: a short press in Settings has just stored a daylight-saving
\* value that differs from the one loaded at boot
C6_Witness ==
    /\ last = "shortPress"
    /\ pc = "enc"
    /\ currentMode = MODE_OVERVIEW
    /\ prefsSummerTime = TRUE
    /\ isSummerTime = TRUE

\* C7: a dispatched long press never changes the mode; in a graph mode it
\* advances the range cyclically and zeroes the pan offset; in Settings it
\* clears the whole history store; in Overview and History it leaves mode,
\* range, pan offset, history index, daylight-saving flag and the history
\* store unchanged.
C7_LongPress ==
    [][LongPressDispatched =>
         /\ currentMode' = currentMode
         /\ IsGraphMode(currentMode) =>
               /\ currentRange' = (IF currentRange = 3 THEN 0 ELSE currentRange + 1)
               /\ timeOffset' = 0
         /\ currentMode = MODE_SETTINGS =>
               /\ file' = <<>>
               /\ flashEntryCount' = 0
               /\ ramBufferCount' = 0
               /\ oldestTimestamp' = 0
               /\ newestTimestamp' = 0
         /\ currentMode \in {MODE_OVERVIEW, MODE_HISTORY} =>
               UNCHANGED <<currentRange, timeOffset, historyIndex, isSummerTime,
                           file, flashEntryCount, ramBufferCount, ramBuffer,
                           oldestTimestamp, newestTimestamp>>]_vars

\* C8: in the interactive loop the pan offset is in [0, 100], the history
\* index is never negative and, when the store holds records, it is at
\* most total - 1.
C8_IndexBounds ==
    pc \in {"long", "short", "enc", "sleep"} =>
        /\ timeOffset >= 0 /\ timeOffset <= MAX_TIME_OFFSET
        /\ historyIndex >= 0
        /\ flashEntryCount > 0 => historyIndex <= flashEntryCount - 1

\* the step of loop() that tests the inactivity timeout
SleepChecked == pc = "sleep" /\ pc' # "sleep"
EntersPeriodicSleep == pc' = "asleep" /\ backgroundReading' /\ timerArmed'

\* C9 as stated: with 30,000 ms or more elapsed since the last recorded
\* activity, as the loop's timeout test computes it, the test enters deep
\* sleep on the periodic path.
C9_InclusiveTimeout ==
    [][(SleepChecked /\ ElapsedSeen >= SLEEP_TIMEOUT) =>
         EntersPeriodicSleep]_vars

\* C9 amended: the timeout test enters deep sleep when the elapsed time it
\* computes since the last recorded activity is more than 30,000 ms, and then
\* on the periodic path (background flag true, timer wake armed); from 0 to
\* exactly 30,000 ms the loop goes on.
C9_ExclusiveTimeout ==
    [][SleepChecked =>
         /\ ElapsedSeen > SLEEP_TIMEOUT => EntersPeriodicSleep
         /\ (ElapsedSeen >= 0 /\ ElapsedSeen <= SLEEP_TIMEOUT) => pc' = "long"]_vars

\* C9 witness: the loop has put an interactive session to sleep exactly
\* 30,001 ms after the last activity
C9_Witness ==
    /\ pc = "asleep"
    /\ last = "sleep"
    /\ wakeCause # "TIMER"
    /\ millis - lastActivityTime = SLEEP_TIMEOUT + 1
    /\ backgroundReading
    /\ timerArmed

\* the boot step that runs the sync gate, and the boot step before it
SyncGateRun == pc = "sync" /\ pc' = "fallback"
BootStarted == pc = "asleep" /\ pc' = "sync"

\* C10: at boot a sync is attempted exactly when the wake is a timer wake,
\* or a power-on/reset (which first clears the stored last-sync value), or
\* the stored last-sync value is 0, or now - lastSync > 86,400.
C10_SyncGate ==
    [][/\ BootStarted /\ wakeCause' = "UNDEFINED" => prefsLastNtpSync' = 0
       /\ SyncGateRun =>
            (syncAttempted' <=>
               \/ wakeCause = "TIMER"
               \/ wakeCause = "UNDEFINED"
               \/ prefsLastNtpSync = 0
               \/ epoch - prefsLastNtpSync > NTP_STALENESS_INTERVAL)]_vars

\* C10 witness: a GPIO wake exactly 86,400 s after the last sync has passed
\* the gate without a sync
C10_Witness ==
    /\ pc = "fallback"
    /\ wakeCause = "GPIO"
    /\ ~syncAttempted
    /\ prefsLastNtpSync # 0
    /\ epoch - prefsLastNtpSync = NTP_STALENESS_INTERVAL

\* the call of syncTimeWithNTP(): the boot step that finds the gate open
SyncCalled == pc = "sync" /\ pc' = "fallback" /\ syncAttempted'

\* C11: every call of syncTimeWithNTP() ends with the radio powered off; a
\* failed call leaves the wall clock, the sleep-persistent last-sync time
\* and the stored last-sync time unchanged; a successful call sets the clock
\* and writes the current epoch to both copies of the last-sync time.
C11_SyncEndsRadioOff ==
    [][SyncCalled =>
         /\ ~radioOn'
         /\ ~ntpSuccess' => UNCHANGED <<epoch, lastNtpSync, prefsLastNtpSync>>
         /\ ntpSuccess' => /\ epoch' = trueTime
                           /\ lastNtpSync' = epoch'
                           /\ prefsLastNtpSync' = epoch']_vars

\* the build has no COMPILE_TIME, or one at or after the sanity threshold
FallbackIsSane == compileTime = 0 \/ compileTime >= SANE_EPOCH

\* C12: with a sane fallback instant, the wall clock is at least
\* 1,767,225,600 when the boot-time sample is taken, and the record an
\* append has just written carries a timestamp at least that floor.
C12_SampleEpochSane ==
    FallbackIsSane =>
        /\ pc = "log" => epoch >= SANE_EPOCH
        /\ last = "append" => file[Len(file)].timestamp >= SANE_EPOCH

\* C12 witness: after a power-on whose sync failed, the sample was appended
\* with the default instant as its timestamp
C12_Witness ==
    /\ last = "append"
    /\ wakeCause = "UNDEFINED"
    /\ syncAttempted /\ ~ntpSuccess
    /\ compileTime = 0
    /\ file[Len(file)].timestamp = DEFAULT_EPOCH

\* what every step of a timer wake keeps to: no display, no loop, the flash
\* file grows only in the sampling step and then by the one record sampled
\* at the current epoch, and the step after the sample is deep sleep with
\* the periodic timer armed again
TimerWakeFrame ==
    /\ ~displayAvailable'
    /\ pc' \notin LoopPcs
    /\ file' # file =>
         /\ pc = "log"
         /\ Len(file') = Len(file) + 1
         /\ file'[Len(file')].timestamp = epoch
    /\ (pc = "post" /\ pc' # "post") =>
         pc' = "asleep" /\ backgroundReading' /\ timerArmed'

\* C13 as stated: a timer wake never initializes the display and never runs
\* the loop; it takes exactly one sample and appends exactly one record,
\* then enters deep sleep with the periodic timer re-armed.
C13_BackgroundOneAppend ==
    [][(wakeCause' = "TIMER" /\ pc # "asleep") =>
         /\ TimerWakeFrame
         /\ (pc = "log" /\ pc' = "post") =>
              /\ sensorAvailable
              /\ Len(file') = Len(file) + 1]_vars

\* C13 amended: a timer wake never initializes the display and never runs
\* the loop; it takes one sample exactly when the sensor was detected and
\* appends that one record exactly when the filesystem mounts and the file
\* opens (otherwise nothing is appended), then enters deep sleep with the
\* periodic timer re-armed.
C13_BackgroundAtMostOneAppend ==
    [][(wakeCause' = "TIMER" /\ pc # "asleep") =>
         /\ TimerWakeFrame
         /\ (pc = "log" /\ pc' = "post") =>
              /\ last' = "noSensor" <=> ~sensorAvailable
              /\ last' = "append" <=> Len(file') = Len(file) + 1
              /\ last' = "appendFailed" <=> (sensorAvailable /\ file' = file)]_vars

\* C13 witness: a timer wake has appended its sample and gone back to sleep
\* with the timer armed
C13_Witness ==
    /\ pc = "asleep"
    /\ wakeCause = "TIMER"
    /\ last = "sleep"
    /\ timerArmed
    /\ faults = 0
    /\ sensorAvailable
    /\ file # <<>>
    /\ file[Len(file)].timestamp = epoch

\* the release of the button seen by buttonISR(), and the duration it measures
ButtonReleased == isrAttached /\ swLevel = 0 /\ swLevel' = 1
PressDuration == millis - buttonPressStart
RaisesShortOnly == buttonPressed' /\ longPress' = longPress
RaisesLongOnly == longPress' /\ buttonPressed' = buttonPressed
RaisesNothing == UNCHANGED <<buttonPressed, longPress>>

\* C14 as stated: on a release, a press of 50 ms <= d < 500 ms raises the
\* short-press flag only, d >= 500 ms the long-press flag only, d < 50 ms
\* no flag.
C14_ClassifyInclusive ==
    [][ButtonReleased =>
         /\ (PressDuration >= SHORT_PRESS_MIN /\ PressDuration < LONG_PRESS_MIN)
               => RaisesShortOnly
         /\ PressDuration >= LONG_PRESS_MIN => RaisesLongOnly
         /\ PressDuration < SHORT_PRESS_MIN => RaisesNothing]_vars

\* C14 amended: on a release, a press of 50 ms < d < 500 ms raises the
\* short-press flag only, d >= 500 ms the long-press flag only, d <= 50 ms
\* no flag: d = 50 is ignored, d = 500 is a long press.
C14_ClassifyExclusive ==
    [][ButtonReleased =>
         /\ (PressDuration > SHORT_PRESS_MIN /\ PressDuration < LONG_PRESS_MIN)
               => RaisesShortOnly
         /\ PressDuration >= LONG_PRESS_MIN => RaisesLongOnly
         /\ PressDuration <= SHORT_PRESS_MIN => RaisesNothing]_vars

\* C14 witness: the release of a press held for exactly 500 ms has raised
\* the long-press flag and not the short-press flag
C14_Witness ==
    /\ swLevel = 1
    /\ buttonPressStart > 0
    /\ millis - buttonPressStart = LONG_PRESS_MIN
    /\ lastActivityTime = millis
    /\ longPress
    /\ ~buttonPressed

\* encoderISR() has met a falling edge of CLK (the pin reads low) at least
\* ENCODER_DEBOUNCE_MS after the last accepted edge; the DT level it read
ClkFallingEdge == clkEdges' = clkEdges + 1
DtHigh == lastEncoderState' % 2 = 1

\* C15: every falling edge of CLK at least 5 ms after the last accepted
\* edge changes the raw tick counter by exactly +1 (DT high) or -1 (DT low).
C15_EveryEdgeCounts ==
    [][ClkFallingEdge =>
         encoderTicks' = encoderTicks + (IF DtHigh THEN 1 ELSE 0 - 1)]_vars

\* the step of loop() that snapshots the raw ticks and reconciles them
TicksReconciled == pc = "enc" /\ pc' = "sleep"
UnconsumedTicks == encoderTicks - lastProcessedTicks
\* half of t, the fraction dropped: 7 gives 3, -7 gives -3
HalfTowardsZero(t) == IF t >= 0 THEN t \div 2 ELSE 0 - ((0 - t) \div 2)

\* C16: the loop consumes trunc(t / 2) steps of an unconsumed delta t and
\* leaves t - 2 * trunc(t / 2) ticks unconsumed; after the reconciliation
\* lastProcessedTicks = 2 * encoderPos and the remainder is at most 1 in
\* magnitude.
C16_TickReconciliation ==
    [][TicksReconciled =>
         /\ encoderPos' = encoderPos + HalfTowardsZero(UnconsumedTicks)
         /\ UnconsumedTicks' =
               UnconsumedTicks - 2 * HalfTowardsZero(UnconsumedTicks)
         /\ lastProcessedTicks' = 2 * encoderPos'
         /\ Abs(UnconsumedTicks') <= 1]_vars

\* C16 witness: the reconciliation has just left seven raw ticks consumed
\* as 3 steps with 1 tick carried
C16_Witness ==
    /\ pc = "sleep"
    /\ last = "rotation"
    /\ encoderTicks = 7
    /\ encoderPos = 3
    /\ lastProcessedTicks = 6

\* C17: when the display was not detected at initialization, no step of the
\* wake cycle issues a display operation.
C17_NoDrawWithoutDisplay == ~displayAvailable => ~drew

\* the main loop has just redrawn a graph on a detected display
GraphDrawn == pc \in LoopPcs /\ IsGraphMode(currentMode) /\ drew

\* the matching records of the span [first, final), in index order
SpanMatches(first, final, from, to) ==
    SelectSeq([k \in 1..(final - first) |-> first + k - 1],
              LAMBDA i : InWindow(i, from, to))

\* the series is the matching records of the span taken every stride-th,
\* the stride counting matching records only
SeriesIsStrided(range, offset) ==
    LET got == getSeries(range, offset)
        all == SpanMatches(estimatedStart(range, offset),
                           estimatedEnd(range, offset),
                           startTime(range, offset), endTime(range, offset))
        stride == Max(1, Len(all) \div 120)
    IN /\ Len(got) <= 120
       /\ \A k \in 0..(Len(got) - 1) :
             /\ k * stride < Len(all)
             /\ got[k + 1] = all[k * stride + 1]

\* C18: every series drawn has at most 120 points and its k-th point is the
\* (k * stride)-th matching record of the scanned span, stride being
\* max(1, matchingCount div 120) and only matching records being counted.
C18_StridedSeries == GraphDrawn => SeriesIsStrided(currentRange, timeOffset)

\* a record is appended to the flash file in a wake cycle that met no
\* filesystem failure, so that the boot reloaded both timestamps from the file
CleanAppend == pc = "log" /\ last' = "append" /\ faults = 0

\* C19: an append never lowers the newest-record timestamp and, once the
\* file holds a record, never changes the oldest-record timestamp, whatever
\* the clock was set to in that wake cycle (NTP, fallback or default instant).
C19_MonotoneStamps ==
    [][CleanAppend =>
          /\ newestTimestamp' >= newestTimestamp
          /\ flashEntryCount > 0 => oldestTimestamp' = oldestTimestamp]_vars

\* C20: the last-sync value kept in the settings store is nonzero only if an
\* NTP sync has succeeded since the last power-on; a failed sync and the
\* fallback or default instant applied after it store no last-sync time.
C20_StoredSyncIsReal == prefsLastNtpSync # 0 => everSynced

\* the main loop dispatches a short press: the mode changes and the screen
\* of the new mode is requested
ModeDispatch == pc = "short" /\ buttonPressed /\ pc' = "enc"

\* C21: with the display available, every mode change dispatched by the main
\* loop redraws the display for the new mode, whatever the history store
\* holds (populated, empty, cleared during this wake cycle).
C21_ModeChangeRedraws == [][(ModeDispatch /\ displayAvailable) => drew']_vars

\* C22: whenever the device is in deep sleep, the timer wake and the GPIO
\* wake are armed and the background-wake flag is true: every sleep entry,
\* from the boot sequence or from the interactive loop, takes the periodic
\* path.
C22_SleepIsPeriodic ==
    pc = "asleep" => timerArmed /\ gpioArmed /\ backgroundReading

\* C22 witness: the device went back to sleep from the interactive loop of a
\* wake caused by the button
C22_Witness == pc = "asleep" /\ wakes > 0 /\ wakeCause = "GPIO" /\ last = "sleep"

\* the timeout test of the interactive loop sends the device to sleep
TimeoutSleep == pc = "sleep" /\ pc' = "asleep"

\* C23: the interactive loop enters deep sleep only when more than 30,000 ms
\* have really elapsed since the most recent activity recorded, under every
\* interleaving of the interrupt handlers with the loop's timeout test.
C23_SleepOnlyWhenIdle ==
    [][TimeoutSleep => millis - lastActivityTime > SLEEP_TIMEOUT]_vars

\* the boot sequence is past its time-setup phase, the interactive loop
\* included
TimeSetupDone == pc \notin {"asleep", "sync", "fallback"}

\* C24: once the boot sequence has finished its time-setup phase, and at
\* every iteration of the interactive loop, the sleep-persistent copy of the
\* last-sync timestamp equals the copy in the settings store.
C24_SyncCopiesAgree == TimeSetupDone => lastNtpSync = prefsLastNtpSync

\* C24 witness: a never-synced device whose sync failed has taken the
\* compile-time fallback, which writes both copies, and reached the loop
C24_Witness ==
    /\ pc \in LoopPcs
    /\ syncAttempted /\ ~ntpSuccess
    /\ compileTime # 0
    /\ lastNtpSync = compileTime
    /\ prefsLastNtpSync = compileTime

\* the button handler raises a press flag that was down
FlagRaised ==
    \/ buttonPressed' /\ ~buttonPressed
    \/ longPress' /\ ~longPress

\* C25: every short-press or long-press flag raised in a wake cycle belongs
\* to a press whose falling edge the button handler saw in that wake cycle;
\* the release of the press that woke the device raises no flag.
C25_FlagsFromSeenPress == [][FlagRaised => pressSeen]_vars

====
